---- MODULE Spec2Model ----
(***************************************************************************)
(* The book subscription API of backend/main.py: the four tables (users,   *)
(* books, subscription_plans, user_books), the bearer tokens the server    *)
(* has signed, the clock, and one action per endpoint.  Spec runs the      *)
(* endpoints one request at a time; SpecConc splits add-to-library,        *)
(* subscribe and register into their database reads and their commit, so   *)
(* that two requests interleave.                                           *)
(***************************************************************************)
EXTENDS Integers, Sequences, FiniteSets, TLC

VARIABLES users, books, plans, user_books, tokens, now, secrets, resp, reqs

vars == <<users, books, plans, user_books, tokens, now, secrets, resp, reqs>>

db == <<users, books, plans, user_books>>

----------------------------------------------------------------------------
(* Bounds of the model *)

MaxUserBooks == 2
MaxTokens == 2
MaxTime == 45

(* Inputs of the requests *)
Emails == {"a@x.com", "b@x.com"}
Passwords == {"pw1", "pw2"}
CorePasswords == {"pw1"}
Salts == {"s1"}
BookIdInputs == {1, 2, 9}
PlanIdInputs == {1, 2, 9}
TickSteps == {15}
SkipInputs == {0, 1}
LimitInputs == {2, 100}
Procs == {1, 2}

----------------------------------------------------------------------------
(* Configuration *)

SECRET_KEY == "your-secret-key-change-this-in-production"
ACCESS_TOKEN_EXPIRE_MINUTES == 30

None == "None"

----------------------------------------------------------------------------
(* Rows *)

User(email, hashed_password) ==
    [email |-> email, hashed_password |-> hashed_password,
     is_active |-> TRUE, subscription_plan |-> "free"]

Book(title, is_premium) == [title |-> title, is_premium |-> is_premium]

SubscriptionPlan(name, max_books) == [name |-> name, max_books |-> max_books]

UserBook(user_id, book_id) ==
    [user_id |-> user_id, book_id |-> book_id, is_read |-> FALSE]

SeedPlans ==
    << SubscriptionPlan("free", 5),
       SubscriptionPlan("premium", 100),
       SubscriptionPlan("unlimited", 999) >>

SeedBooks ==
    << Book("The Python Guide", FALSE),
       Book("Advanced FastAPI", TRUE),
       Book("Data Science Handbook", TRUE),
       Book("Web Development Basics", FALSE),
       Book("Machine Learning Primer", TRUE) >>

----------------------------------------------------------------------------
(* Queries: db.query(T).filter(...).first() gives the row id, 0 for None *)

Ids(table) == 1..Len(table)

MinOf(S) == CHOOSE x \in S : \A y \in S : x <= y

UserByEmail(us, email) ==
    LET hit == {i \in Ids(us) : us[i].email = email}
    IN  IF hit = {} THEN 0 ELSE MinOf(hit)

BookById(bs, book_id) == IF book_id \in Ids(bs) THEN book_id ELSE 0

\* PlanById taking the id for a 0-based position
PlanById_ZeroBased(ps, plan_id) == IF plan_id + 1 \in Ids(ps) THEN plan_id + 1 ELSE 0

PlanById(ps, plan_id) == IF plan_id \in Ids(ps) THEN plan_id ELSE 0

\* UserBookOf giving only rows the user's present plan entitles the user to
UserBookOf_PresentPlan(ubs, user_id, book_id) ==
    LET hit == {k \in Ids(ubs) : /\ ubs[k].user_id = user_id
                                 /\ ubs[k].book_id = book_id
                                 /\ ~(/\ books[book_id].is_premium
                                      /\ users[user_id].subscription_plan = "free")}
    IN  IF hit = {} THEN 0 ELSE MinOf(hit)

\* UserBookOf without the filter on the user
UserBookOf_AnyUser(ubs, user_id, book_id) ==
    LET hit == {k \in Ids(ubs) : ubs[k].book_id = book_id}
    IN  IF hit = {} THEN 0 ELSE MinOf(hit)

UserBookOf(ubs, user_id, book_id) ==
    LET hit == {k \in Ids(ubs) : ubs[k].user_id = user_id /\ ubs[k].book_id = book_id}
    IN  IF hit = {} THEN 0 ELSE MinOf(hit)

RECURSIVE UserBooksOfUser(_, _)
UserBooksOfUser(ubs, user_id) ==
    IF ubs = << >> THEN << >>
    ELSE LET rest == UserBooksOfUser(SubSeq(ubs, 1, Len(ubs) - 1), user_id)
             last == ubs[Len(ubs)]
         IN  IF last.user_id = user_id THEN Append(rest, last) ELSE rest

----------------------------------------------------------------------------
(* Passwords: bcrypt gives a digest of (salt, password) that carries its   *)
(* salt; checkpw hashes the candidate with the stored salt and compares.   *)

Bcrypt(password, salt) == [salt |-> salt, digest |-> <<salt, password>>]

hash_password(password, salt) == Bcrypt(password, salt)

\* verify_password comparing the salts alone
verify_password_SaltOnly(password, hashed_password) ==
    Bcrypt(password, hashed_password.salt).salt = hashed_password.salt

verify_password(password, hashed_password) ==
    Bcrypt(password, hashed_password.salt) = hashed_password

----------------------------------------------------------------------------
(* Tokens: a JWT is its claims and the key that signed it *)

create_access_token(sub, t) ==
    [sub |-> sub, exp |-> t + ACCESS_TOKEN_EXPIRE_MINUTES, key |-> SECRET_KEY]

\* verify_token without the check of exp
verify_token_NoExpiry(tok, t, atExpiry) ==
    IF tok.key # SECRET_KEY THEN None ELSE tok.sub

\* jwt.decode: the signature, then exp.  At the expiry instant itself the
\* outcome is the library's (atExpiry: the token is still accepted there).
verify_token(tok, t, atExpiry) ==
    IF tok.key # SECRET_KEY THEN None
    ELSE IF t > tok.exp \/ (t = tok.exp /\ ~atExpiry) THEN None
    ELSE tok.sub

\* get_current_user that falls back to the first user when the email of
\* the token has no row
get_current_user_FirstUser(tok, t, atExpiry, us) ==
    LET email == verify_token(tok, t, atExpiry)
    IN  IF email = None THEN 0
        ELSE IF UserByEmail(us, email) # 0 THEN UserByEmail(us, email)
        ELSE IF us = << >> THEN 0 ELSE 1

get_current_user(tok, t, atExpiry, us) ==
    LET email == verify_token(tok, t, atExpiry)
    IN  IF email = None THEN 0 ELSE UserByEmail(us, email)

\* The outcomes the library can give for tok at instant t
LibraryChoices(tok, t) == IF t = tok.exp THEN BOOLEAN ELSE {FALSE}

\* What a client can put in the Authorization header: a token the server
\* signed, or one signed with another key.  tokens keeps each token the
\* server issued with the instant and the email it was issued for.
ForgedTokens ==
    {[sub |-> "a@x.com", exp |-> MaxTime + ACCESS_TOKEN_EXPIRE_MINUTES,
      key |-> "another-key"]}

\* Tokens signed with SECRET_KEY that no login of this database issued: the
\* key is a constant of the source, so tokens signed before the tables were
\* last recreated still verify.  One is past its exp, one is for an email
\* that has no user, one carries no "sub".
StaleTokens ==
    {[sub |-> "a@x.com", exp |-> 0 - 1, key |-> SECRET_KEY],
     [sub |-> "gone@x.com", exp |-> MaxTime + ACCESS_TOKEN_EXPIRE_MINUTES, key |-> SECRET_KEY],
     [sub |-> None, exp |-> MaxTime + ACCESS_TOKEN_EXPIRE_MINUTES, key |-> SECRET_KEY]}

Presentable == {i.jwt : i \in tokens} \cup ForgedTokens \cup StaleTokens

----------------------------------------------------------------------------
(* The response of the last request *)

Response(op, user, email, password, arg, status, body) ==
    [op |-> op, user |-> user, email |-> email, password |-> password,
     arg |-> arg, status |-> status, body |-> body]

\* No token resolved
NoToken == [sub |-> None, exp |-> 0, key |-> ""]

\* The response of an endpoint that depends on get_current_user, with the
\* token that resolved to the caller (NoToken with a 401)
AuthResponse(tok, op, user, email, password, arg, status, body) ==
    [op |-> op, user |-> user, email |-> email, password |-> password,
     arg |-> arg, status |-> status, body |-> body, tok |-> tok]

NoResponse == Response("none", 0, "", "", 0, 0, << >>)

Idle == [pc |-> "idle"]

Init ==
    /\ users = << >>
    /\ books = << >>
    /\ plans = << >>
    /\ user_books = << >>
    /\ tokens = {}
    /\ now = 0
    /\ secrets = << >>
    /\ resp = NoResponse
    /\ reqs = [p \in Procs |-> Idle]

----------------------------------------------------------------------------
(* Endpoints, one request at a time *)

read_root ==
    /\ resp' = Response("read_root", 0, "", "", 0, 200, << >>)
    /\ UNCHANGED <<db, tokens, now, secrets, reqs>>

\* RegisterStatus without the lookup of the email
RegisterStatus_NoLookup(us, db_user, row) ==
    IF ~(UserByEmail(us, row.email) = 0) THEN 500 ELSE 200

\* users.email is unique: the INSERT of a second row with the email fails
InsertUserOk(us, row) == UserByEmail(us, row.email) = 0

\* The answer of register: db_user is the row the lookup found (0: none)
RegisterStatus(us, db_user, row) ==
    IF db_user # 0 THEN 400
    ELSE IF ~InsertUserOk(us, row) THEN 500
    ELSE 200

register(pws) ==
    \E email \in Emails, password \in pws, salt \in Salts :
        LET db_user == UserByEmail(users, email)
            row == User(email, hash_password(password, salt))
            st == RegisterStatus(users, db_user, row)
        IN  /\ users' = IF st = 200 THEN Append(users, row) ELSE users
            /\ secrets' = IF st = 200 THEN Append(secrets, password) ELSE secrets
            /\ resp' = Response("register", IF st = 200 THEN Len(users) + 1 ELSE 0,
                                email, password, 0, st, << >>)
            /\ UNCHANGED <<books, plans, user_books, tokens, now, reqs>>

login(pws) ==
    \E email \in Emails, password \in pws :
        LET db_user == UserByEmail(users, email)
        IN  IF db_user = 0 \/ ~verify_password(password, users[db_user].hashed_password)
            THEN /\ resp' = Response("login", 0, email, password, 0, 401, << >>)
                 /\ UNCHANGED <<db, tokens, now, secrets, reqs>>
            ELSE LET access_token == create_access_token(email, now)
                     issued == [jwt |-> access_token, at |-> now, for |-> email]
                 IN  /\ Cardinality(tokens \cup {issued}) <= MaxTokens
                     /\ tokens' = tokens \cup {issued}
                     /\ resp' = Response("login", db_user, email, password, 0, 200,
                                         <<access_token>>)
                     /\ UNCHANGED <<db, now, secrets, reqs>>

get_current_user_info ==
    \E tok \in Presentable :
      \E atExpiry \in LibraryChoices(tok, now) :
        LET current_user == get_current_user(tok, now, atExpiry, users)
        IN  /\ resp' = IF current_user = 0
                       THEN AuthResponse(NoToken, "me", 0, "", "", 0, 401, << >>)
                       ELSE AuthResponse(tok, "me", current_user, users[current_user].email, "", 0, 200,
                                     <<users[current_user].subscription_plan>>)
            /\ UNCHANGED <<db, tokens, now, secrets, reqs>>

\* db.query(Book).offset(skip).limit(limit).all(), as the ids of the rows
Page(table, skip, limit) ==
    [k \in 1..(IF Len(table) - skip < 0 THEN 0
               ELSE IF Len(table) - skip < limit THEN Len(table) - skip
               ELSE limit) |-> skip + k]

get_books ==
    \E skip \in SkipInputs, limit \in LimitInputs :
        /\ resp' = Response("get_books", 0, "", "", skip, 200, Page(books, skip, limit))
        /\ UNCHANGED <<db, tokens, now, secrets, reqs>>

get_book ==
    \E book_id \in BookIdInputs :
        /\ resp' = IF BookById(books, book_id) = 0
                   THEN Response("get_book", 0, "", "", book_id, 404, << >>)
                   ELSE Response("get_book", 0, "", "", book_id, 200, <<book_id>>)
        /\ UNCHANGED <<db, tokens, now, secrets, reqs>>

\* AddStatus without the premium check
AddStatus_NoPremiumCheck(bs, book, existing, plan) ==
    IF book = 0 THEN 404
    ELSE IF existing # 0 THEN 400
    ELSE 200

\* AddRows with the row added before the premium check is made
AddRows_BeforePremiumCheck(ubs, user_id, book_id, st) ==
    IF st \in {200, 403} THEN Append(ubs, UserBook(user_id, book_id)) ELSE ubs

\* AddStatus without the lookup of an existing user_books row
AddStatus_NoExistingCheck(bs, book, existing, plan) ==
    IF book = 0 THEN 404
    ELSE IF bs[book].is_premium /\ plan = "free" THEN 403
    ELSE 200

\* AddStatus with the premium check made before the lookup of an existing row
AddStatus_PremiumFirst(bs, book, existing, plan) ==
    IF book = 0 THEN 404
    ELSE IF bs[book].is_premium /\ plan = "free" THEN 403
    ELSE IF existing # 0 THEN 400
    ELSE 200

\* The checks of add_book_to_library in the order the handler makes them,
\* as the status it answers: book is the id the lookup found (0: none),
\* existing the user_books row it found (0: none), plan the caller's plan.
AddStatus(bs, book, existing, plan) ==
    IF book = 0 THEN 404
    ELSE IF existing # 0 THEN 400
    ELSE IF bs[book].is_premium /\ plan = "free" THEN 403
    ELSE 200

\* db.add(user_book); db.commit(): reached only with every check passed
AddRows(ubs, user_id, book_id, st) ==
    IF st = 200 THEN Append(ubs, UserBook(user_id, book_id)) ELSE ubs

add_book_to_library ==
    \E tok \in Presentable, book_id \in BookIdInputs :
      \E atExpiry \in LibraryChoices(tok, now) :
        LET current_user == get_current_user(tok, now, atExpiry, users)
        IN  IF current_user = 0
            THEN /\ resp' = AuthResponse(NoToken, "add_book_to_library", 0, "", "",
                                         book_id, 401, << >>)
                 /\ UNCHANGED <<db, tokens, now, secrets, reqs>>
            ELSE LET book == BookById(books, book_id)
                     existing == UserBookOf(user_books, current_user, book_id)
                     st == AddStatus(books, book, existing,
                                     users[current_user].subscription_plan)
                 IN  /\ st = 200 => Len(user_books) < MaxUserBooks
                     /\ user_books' = AddRows(user_books, current_user, book_id, st)
                     /\ resp' = AuthResponse(tok, "add_book_to_library", current_user, "", "",
                                         book_id, st, << >>)
                     /\ UNCHANGED <<users, books, plans, tokens, now, secrets, reqs>>

BookIdsOf(rows) == [k \in 1..Len(rows) |-> rows[k].book_id]

get_my_books ==
    \E tok \in Presentable :
      \E atExpiry \in LibraryChoices(tok, now) :
        LET current_user == get_current_user(tok, now, atExpiry, users)
        IN  /\ resp' = IF current_user = 0
                       THEN AuthResponse(NoToken, "get_my_books", 0, "", "", 0, 401, << >>)
                       ELSE AuthResponse(tok, "get_my_books", current_user, "", "", 0, 200,
                                     BookIdsOf(UserBooksOfUser(user_books, current_user)))
            /\ UNCHANGED <<db, tokens, now, secrets, reqs>>

\* MarkRows that flips is_read
MarkRows_Toggle(ubs, user_book) ==
    IF user_book = 0 THEN ubs
    ELSE [ubs EXCEPT ![user_book].is_read = ~ubs[user_book].is_read]

\* user_book.is_read = True; db.commit(): user_book is the row found (0: none)
MarkRows(ubs, user_book) ==
    IF user_book = 0 THEN ubs ELSE [ubs EXCEPT ![user_book].is_read = TRUE]

mark_book_as_read ==
    \E tok \in Presentable, book_id \in BookIdInputs :
      \E atExpiry \in LibraryChoices(tok, now) :
        LET current_user == get_current_user(tok, now, atExpiry, users)
        IN  IF current_user = 0
            THEN /\ resp' = AuthResponse(NoToken, "mark_book_as_read", 0, "", "",
                                         book_id, 401, << >>)
                 /\ UNCHANGED <<db, tokens, now, secrets, reqs>>
            ELSE LET user_book == UserBookOf(user_books, current_user, book_id)
                 IN  /\ user_books' = MarkRows(user_books, user_book)
                     /\ resp' = AuthResponse(tok, "mark_book_as_read", current_user, "", "", book_id,
                                         IF user_book = 0 THEN 404 ELSE 200, << >>)
                     /\ UNCHANGED <<users, books, plans, tokens, now, secrets, reqs>>

get_subscription_plans ==
    /\ resp' = Response("get_subscription_plans", 0, "", "", 0, 200,
                        [k \in 1..Len(plans) |-> plans[k].name])
    /\ UNCHANGED <<db, tokens, now, secrets, reqs>>

\* current_user.subscription_plan = plan.name; db.commit(): plan is the
\* subscription_plans row found (0: none)
\* SubscribeUsers that writes the plan to every users row
SubscribeUsers_Everyone(us, ps, user_id, plan) ==
    IF plan = 0 THEN us
    ELSE [v \in DOMAIN us |-> [us[v] EXCEPT !.subscription_plan = ps[plan].name]]

\* SubscribeUsers that keeps a paid plan once the user had one
SubscribeUsers_KeepPaid(us, ps, user_id, plan) ==
    IF plan = 0 THEN us
    ELSE IF us[user_id].subscription_plan # "free" /\ ps[plan].name = "free" THEN us
    ELSE [us EXCEPT ![user_id].subscription_plan = ps[plan].name]

SubscribeUsers(us, ps, user_id, plan) ==
    IF plan = 0 THEN us ELSE [us EXCEPT ![user_id].subscription_plan = ps[plan].name]

subscribe_to_plan ==
    \E tok \in Presentable, plan_id \in PlanIdInputs :
      \E atExpiry \in LibraryChoices(tok, now) :
        LET current_user == get_current_user(tok, now, atExpiry, users)
        IN  IF current_user = 0
            THEN /\ resp' = AuthResponse(NoToken, "subscribe_to_plan", 0, "", "",
                                         plan_id, 401, << >>)
                 /\ UNCHANGED <<db, tokens, now, secrets, reqs>>
            ELSE LET plan == PlanById(plans, plan_id)
                 IN  /\ users' = SubscribeUsers(users, plans, current_user, plan)
                     /\ resp' = AuthResponse(tok, "subscribe_to_plan", current_user, "", "", plan_id,
                                         IF plan = 0 THEN 404 ELSE 200,
                                         IF plan = 0 THEN << >> ELSE <<plans[plan].name>>)
                     /\ UNCHANGED <<books, plans, user_books, tokens, now, secrets, reqs>>

\* seed_data without the check for an existing book
seed_data_NoCheck ==
    /\ Len(books) < 2 * Len(SeedBooks)
    /\ plans' = plans \o SeedPlans
    /\ books' = books \o SeedBooks
    /\ resp' = Response("seed_data", 0, "", "", 0, 200,
                        <<"Sample data created successfully">>)
    /\ UNCHANGED <<users, user_books, tokens, now, secrets, reqs>>

seed_data ==
    IF books # << >>
    THEN /\ resp' = Response("seed_data", 0, "", "", 0, 200, <<"Data already exists">>)
         /\ UNCHANGED <<db, tokens, now, secrets, reqs>>
    ELSE /\ plans' = plans \o SeedPlans
         /\ books' = books \o SeedBooks
         /\ resp' = Response("seed_data", 0, "", "", 0, 200,
                             <<"Sample data created successfully">>)
         /\ UNCHANGED <<users, user_books, tokens, now, secrets, reqs>>

\* The clock moves between requests
Tick ==
    \E d \in TickSteps :
        /\ now + d <= MaxTime
        /\ now' = now + d
        /\ UNCHANGED <<db, tokens, secrets, resp, reqs>>

Next ==
    \/ read_root
    \/ register(CorePasswords)
    \/ login(CorePasswords)
    \/ get_current_user_info
    \/ get_books
    \/ get_book
    \/ add_book_to_library
    \/ get_my_books
    \/ mark_book_as_read
    \/ get_subscription_plans
    \/ subscribe_to_plan
    \/ seed_data

Spec == Init /\ [][Next]_vars

\* The credential store and the session issuer over time: registration and
\* login with several passwords, token resolution, plan switches, the clock.
NextAuth ==
    \/ register(Passwords)
    \/ login(Passwords)
    \/ get_current_user_info
    \/ subscribe_to_plan
    \/ seed_data
    \/ Tick

SpecAuth == Init /\ [][NextAuth]_vars

----------------------------------------------------------------------------
(* Concurrent requests.  Each worker p runs one handler at a time, a step  *)
(* per database read and one for the commit; reqs[p] holds the handler's   *)
(* position and what its session has loaded.  Rows a session has loaded    *)
(* are not read again: current_user is the row as get_current_user saw it. *)

Done(op, user, email, arg, status) ==
    [pc |-> "done", op |-> op, user |-> user, email |-> email, arg |-> arg,
     status |-> status]

\* A state the sequential endpoints reach: seed data, one registered user
\* on either plan, holding a token.
InitConc ==
    /\ \E plan \in {"free", "premium"} :
          users = << [User("a@x.com", hash_password("pw1", "s1"))
                         EXCEPT !.subscription_plan = plan] >>
    /\ books = SeedBooks
    /\ plans = SeedPlans
    /\ user_books = << >>
    /\ tokens = {[jwt |-> create_access_token("a@x.com", 0), at |-> 0, for |-> "a@x.com"]}
    /\ now = 0
    /\ secrets = << "pw1" >>
    /\ resp = NoResponse
    /\ reqs = [p \in Procs |-> Idle]

\* get_current_user, then the handler's first query
add_start(p) ==
    /\ reqs[p].pc = "idle"
    /\ \E tok \in Presentable, book_id \in BookIdInputs :
         \E atExpiry \in LibraryChoices(tok, now) :
           LET current_user == get_current_user(tok, now, atExpiry, users)
           IN  reqs' = [reqs EXCEPT ![p] =
                   IF current_user = 0
                   THEN Done("add_book_to_library", 0, "", book_id, 401)
                   ELSE [pc |-> "add_book", user |-> current_user, arg |-> book_id,
                         plan |-> users[current_user].subscription_plan]]
    /\ UNCHANGED <<db, tokens, now, secrets, resp>>

add_book(p) ==
    /\ reqs[p].pc = "add_book"
    /\ LET r == reqs[p]
           book == BookById(books, r.arg)
       IN  reqs' = [reqs EXCEPT ![p] =
               IF book = 0
               THEN Done("add_book_to_library", r.user, "", r.arg, 404)
               ELSE [r EXCEPT !.pc = "add_existing"]]
    /\ UNCHANGED <<db, tokens, now, secrets, resp>>

add_existing(p) ==
    /\ reqs[p].pc = "add_existing"
    /\ LET r == reqs[p]
           existing == UserBookOf(user_books, r.user, r.arg)
           st == AddStatus(books, r.arg, existing, r.plan)
       IN  reqs' = [reqs EXCEPT ![p] =
               IF st = 200
               THEN [r EXCEPT !.pc = "add_commit"]
               ELSE Done("add_book_to_library", r.user, "", r.arg, st)]
    /\ UNCHANGED <<db, tokens, now, secrets, resp>>

\* user_books has no constraint on (user_id, book_id): the INSERT succeeds
add_commit(p) ==
    /\ reqs[p].pc = "add_commit"
    /\ Len(user_books) < MaxUserBooks
    /\ LET r == reqs[p]
       IN  /\ user_books' = AddRows(user_books, r.user, r.arg, 200)
           /\ reqs' = [reqs EXCEPT ![p] =
                          Done("add_book_to_library", r.user, "", r.arg, 200)]
    /\ UNCHANGED <<users, books, plans, tokens, now, secrets, resp>>

sub_start(p) ==
    /\ reqs[p].pc = "idle"
    /\ \E tok \in Presentable, plan_id \in PlanIdInputs :
         \E atExpiry \in LibraryChoices(tok, now) :
           LET current_user == get_current_user(tok, now, atExpiry, users)
           IN  reqs' = [reqs EXCEPT ![p] =
                   IF current_user = 0
                   THEN Done("subscribe_to_plan", 0, "", plan_id, 401)
                   ELSE [pc |-> "sub_plan", user |-> current_user, arg |-> plan_id,
                         plan |-> users[current_user].subscription_plan]]
    /\ UNCHANGED <<db, tokens, now, secrets, resp>>

sub_plan(p) ==
    /\ reqs[p].pc = "sub_plan"
    /\ LET r == reqs[p]
           plan == PlanById(plans, r.arg)
       IN  reqs' = [reqs EXCEPT ![p] =
               IF plan = 0
               THEN Done("subscribe_to_plan", r.user, "", r.arg, 404)
               ELSE [r EXCEPT !.pc = "sub_commit"]]
    /\ UNCHANGED <<db, tokens, now, secrets, resp>>

\* The session flushes an UPDATE of the column only when the value assigned
\* differs from the value it loaded.
sub_commit(p) ==
    /\ reqs[p].pc = "sub_commit"
    /\ LET r == reqs[p]
       IN  /\ users' = IF plans[r.arg].name = r.plan THEN users
                       ELSE SubscribeUsers(users, plans, r.user, r.arg)
           /\ reqs' = [reqs EXCEPT ![p] =
                          Done("subscribe_to_plan", r.user, "", r.arg, 200)]
    /\ UNCHANGED <<books, plans, user_books, tokens, now, secrets, resp>>

reg_start(p) ==
    /\ reqs[p].pc = "idle"
    /\ \E email \in Emails, password \in CorePasswords, salt \in Salts :
           LET db_user == UserByEmail(users, email)
           IN  reqs' = [reqs EXCEPT ![p] =
                   IF db_user # 0
                   THEN Done("register", 0, email, 0, 400)
                   ELSE [pc |-> "reg_commit", email |-> email, password |-> password,
                         row |-> User(email, hash_password(password, salt))]]
    /\ UNCHANGED <<db, tokens, now, secrets, resp>>

\* db.commit(): the INSERT; an IntegrityError is not caught by the handler
reg_commit(p) ==
    /\ reqs[p].pc = "reg_commit"
    /\ LET r == reqs[p]
           st == RegisterStatus(users, 0, r.row)
       IN  /\ users' = IF st = 200 THEN Append(users, r.row) ELSE users
           /\ secrets' = IF st = 200 THEN Append(secrets, r.password) ELSE secrets
           /\ reqs' = [reqs EXCEPT ![p] =
                          Done("register", IF st = 200 THEN Len(users) + 1 ELSE 0,
                               r.email, 0, st)]
    /\ UNCHANGED <<books, plans, user_books, tokens, now, resp>>

\* A finished get_my_books, with the list it answers
DoneList(user, status, body) ==
    [pc |-> "done", op |-> "get_my_books", user |-> user, email |-> "", arg |-> 0,
     status |-> status, body |-> body]

list_start(p) ==
    /\ reqs[p].pc = "idle"
    /\ \E tok \in Presentable :
         \E atExpiry \in LibraryChoices(tok, now) :
           LET current_user == get_current_user(tok, now, atExpiry, users)
           IN  reqs' = [reqs EXCEPT ![p] =
                   IF current_user = 0
                   THEN DoneList(0, 401, << >>)
                   ELSE [pc |-> "list_rows", user |-> current_user]]
    /\ UNCHANGED <<db, tokens, now, secrets, resp>>

\* The query of the caller's rows, and user_book.book of each
list_rows(p) ==
    /\ reqs[p].pc = "list_rows"
    /\ reqs' = [reqs EXCEPT ![p] =
                   DoneList(reqs[p].user, 200,
                            BookIdsOf(UserBooksOfUser(user_books, reqs[p].user)))]
    /\ UNCHANGED <<db, tokens, now, secrets, resp>>

\* The response leaves; the worker takes the next request
respond(p) ==
    /\ reqs[p].pc = "done"
    /\ reqs' = [reqs EXCEPT ![p] = Idle]
    /\ UNCHANGED <<db, tokens, now, secrets, resp>>

NextConc ==
    \E p \in Procs :
        \/ add_start(p)
        \/ add_book(p)
        \/ add_existing(p)
        \/ add_commit(p)
        \/ sub_start(p)
        \/ sub_plan(p)
        \/ sub_commit(p)
        \/ reg_start(p)
        \/ reg_commit(p)
        \/ list_start(p)
        \/ list_rows(p)
        \/ respond(p)

SpecConc == InitConc /\ [][NextConc]_vars

----------------------------------------------------------------------------
(* Properties *)

\* The step serves a request of the endpoint op: it leaves the response of
\* op and does not move the clock.
Served(op) == resp'.op = op /\ now' = now

RowsOf(ubs, u, i) == {k \in Ids(ubs) : ubs[k].user_id = u /\ ubs[k].book_id = i}

Entitled(u, i) ==
    /\ BookById(books, i) # 0
    /\ ~(books[i].is_premium /\ users[u].subscription_plan = "free")

AtMostOneOwnership ==
    \A k1, k2 \in Ids(user_books) :
        (/\ user_books[k1].user_id = user_books[k2].user_id
         /\ user_books[k1].book_id = user_books[k2].book_id) => k1 = k2

\* C1: requests running one at a time, an add-to-library by a user entitled
\* to an existing book the user does not own answers 200 and leaves exactly
\* one user_books row for the pair; an add-to-library of the same book by
\* the same user right after a successful one answers 400 and leaves that
\* one row; and no state holds two user_books rows for one (user, book).
C1_AcquireTwice ==
    /\ []AtMostOneOwnership
    /\ [][(Served("add_book_to_library") /\ resp'.user # 0) =>
            LET u == resp'.user
                i == resp'.arg
            IN  /\ (Entitled(u, i) /\ RowsOf(user_books, u, i) = {}) =>
                       (resp'.status = 200 /\ Cardinality(RowsOf(user_books', u, i)) = 1)
                /\ (/\ resp.op = "add_book_to_library"
                    /\ resp.status = 200
                    /\ resp.user = u
                    /\ resp.arg = i) =>
                       (resp'.status = 400 /\ Cardinality(RowsOf(user_books', u, i)) = 1)
          ]_vars

\* C1 witness: the second add-to-library of a book has answered 400 and the
\* one row of the first is there.
C1_Witness ==
    /\ resp.op = "add_book_to_library"
    /\ resp.status = 400
    /\ Cardinality(RowsOf(user_books, resp.user, resp.arg)) = 1

\* C2: with add-to-library requests interleaved at their reads and their
\* commit, no two requests for the same (user, book) both answer 200 and no
\* state holds two user_books rows for one (user, book).
C2_ConcurrentAcquire ==
    /\ \A k1, k2 \in Ids(user_books) :
          (/\ user_books[k1].user_id = user_books[k2].user_id
           /\ user_books[k1].book_id = user_books[k2].book_id) => k1 = k2
    /\ \A p, q \in Procs :
          (/\ p # q
           /\ reqs[p].pc = "done" /\ reqs[q].pc = "done"
           /\ reqs[p].op = "add_book_to_library" /\ reqs[q].op = "add_book_to_library"
           /\ reqs[p].user = reqs[q].user /\ reqs[p].arg = reqs[q].arg
           /\ reqs[p].status = 200) => reqs[q].status # 200

\* C3 as claimed: an add-to-library of an existing premium book by a user
\* whose plan is free answers 403.
C3_FreePlanDenied ==
    [][(/\ Served("add_book_to_library")
        /\ resp'.user # 0
        /\ BookById(books, resp'.arg) # 0
        /\ books[resp'.arg].is_premium
        /\ users[resp'.user].subscription_plan = "free") => resp'.status = 403]_vars

\* C3 amended: an add-to-library of an existing premium book by a user whose
\* plan is free never succeeds and adds no row: it answers 403 when the user
\* does not own the book, and 400 when the user owns it already.
C3_FreePlanDeniedUnlessOwned ==
    [][(/\ Served("add_book_to_library")
        /\ resp'.user # 0
        /\ BookById(books, resp'.arg) # 0
        /\ books[resp'.arg].is_premium
        /\ users[resp'.user].subscription_plan = "free") =>
            /\ user_books' = user_books
            /\ resp'.status = IF RowsOf(user_books, resp'.user, resp'.arg) = {}
                              THEN 403 ELSE 400]_vars

\* C3 witness: a user on the free plan has been answered 403 for a premium
\* book the user does not own.
C3_Witness ==
    /\ resp.op = "add_book_to_library"
    /\ resp.status = 403
    /\ resp.user # 0
    /\ users[resp.user].subscription_plan = "free"
    /\ books[resp.arg].is_premium
    /\ RowsOf(user_books, resp.user, resp.arg) = {}

\* C4: no request removes a user_books row or changes whose it is or for
\* which book, and subscribe changes no user_books row at all; /my-books
\* lists every book the caller has a row for and mark-read answers 200 for
\* every book the caller has a row for, whatever the caller's plan is then.
\* So a premium book acquired on a paid plan stays listed and readable after
\* the switch to free.
C4_NoRetroactiveRevocation ==
    /\ [][Served("subscribe_to_plan") => user_books' = user_books]_vars
    /\ [][/\ Len(user_books') >= Len(user_books)
          /\ \A k \in Ids(user_books) :
                /\ user_books'[k].user_id = user_books[k].user_id
                /\ user_books'[k].book_id = user_books[k].book_id]_vars
    /\ [][(Served("get_my_books") /\ resp'.user # 0) =>
             /\ resp'.status = 200
             /\ \A k \in Ids(user_books) :
                   user_books[k].user_id = resp'.user =>
                       \E j \in DOMAIN resp'.body : resp'.body[j] = user_books[k].book_id
         ]_vars
    /\ [][(/\ Served("mark_book_as_read")
           /\ resp'.user # 0
           /\ RowsOf(user_books, resp'.user, resp'.arg) # {}) =>
             /\ resp'.status = 200
             /\ \A k \in RowsOf(user_books', resp'.user, resp'.arg) : user_books'[k].is_read
         ]_vars

\* C4 witness: a user back on the free plan has marked as read a premium
\* book acquired earlier.
C4_Witness ==
    /\ resp.op = "mark_book_as_read"
    /\ resp.status = 200
    /\ users[resp.user].subscription_plan = "free"
    /\ books[resp.arg].is_premium
    /\ RowsOf(user_books, resp.user, resp.arg) # {}

\* C5: a request answered with a failure status leaves the four tables and
\* the issued tokens as they were.
C5_FailureHasNoEffect ==
    [][resp'.status # 200 => UNCHANGED <<users, books, plans, user_books, tokens>>]_vars

\* C5 witness: an add-to-library has failed (entitlement denied or no such
\* book) in a state that holds rows, none of them for the pair asked for.
C5_Witness ==
    /\ resp.op = "add_book_to_library"
    /\ resp.user # 0
    /\ resp.status \in {403, 404}
    /\ user_books # << >>
    /\ RowsOf(user_books, resp.user, resp.arg) = {}

UniqueEmails ==
    \A i, j \in Ids(users) : users[i].email = users[j].email => i = j

\* C6: a register for an email that has a user answers 400 whatever the
\* password, and leaves the users table as it was; no two users share an
\* email; and a login for the email answers 200 exactly for the password of
\* the registration that succeeded.
C6_RegistrationUnique ==
    /\ []UniqueEmails
    /\ [][(Served("register") /\ UserByEmail(users, resp'.email) # 0) =>
             (resp'.status = 400 /\ users' = users /\ secrets' = secrets)]_vars
    /\ [](( /\ resp.op = "login"
            /\ UserByEmail(users, resp.email) # 0) =>
             (resp.status = 200 <=>
                  resp.password = secrets[UserByEmail(users, resp.email)]))

\* C6 witness: a register for a registered email, with a password other
\* than the registered one, has been answered 400.
C6_Witness ==
    /\ resp.op = "register"
    /\ resp.status = 400
    /\ resp.password # secrets[UserByEmail(users, resp.email)]

\* C7: a login answers 200, with a token whose subject is the email, exactly
\* when the email has a user and the password is the one of that user's
\* registration; otherwise it answers 401 with no body, the same for an
\* unknown email and for a wrong password.  The user a register has just
\* created is on plan "free".
C7_Authenticate ==
    /\ resp.op = "login" =>
          LET u == UserByEmail(users, resp.email)
          IN  IF u # 0 /\ resp.password = secrets[u]
              THEN /\ resp.status = 200
                   /\ resp.user = u
                   /\ Len(resp.body) = 1
                   /\ resp.body[1].sub = resp.email
                   /\ resp.body[1].key = SECRET_KEY
              ELSE /\ resp.status = 401
                   /\ resp.user = 0
                   /\ resp.body = << >>
    /\ (resp.op = "register" /\ resp.status = 200) =>
          /\ resp.user = Len(users)
          /\ users[resp.user].email = resp.email
          /\ users[resp.user].subscription_plan = "free"

\* C7 witness: a login for a registered email with a wrong password has
\* been answered 401.
C7_Witness ==
    /\ resp.op = "login"
    /\ resp.status = 401
    /\ UserByEmail(users, resp.email) # 0
    /\ resp.password # secrets[UserByEmail(users, resp.email)]

\* C8: a token issued at instant t for an email resolves to that email, and
\* to its user, at every instant before t + ACCESS_TOKEN_EXPIRE_MINUTES,
\* whatever requests were served since; it is refused at every instant after
\* t + ACCESS_TOKEN_EXPIRE_MINUTES; and it never resolves to another email.
C8_TokenWindow ==
    \A i \in tokens, atExpiry \in BOOLEAN :
        LET email == verify_token(i.jwt, now, atExpiry)
        IN  /\ email \in {None, i.for}
            /\ now < i.at + ACCESS_TOKEN_EXPIRE_MINUTES =>
                  /\ email = i.for
                  /\ get_current_user(i.jwt, now, atExpiry, users) # 0
                  /\ users[get_current_user(i.jwt, now, atExpiry, users)].email = i.for
            /\ now > i.at + ACCESS_TOKEN_EXPIRE_MINUTES =>
                  /\ email = None
                  /\ get_current_user(i.jwt, now, atExpiry, users) = 0

\* C8 witness: one token is past its expiry while a token issued later is
\* within its window, its user having switched plan since.
C8_Witness ==
    \E i, j \in tokens :
        /\ now > i.at + ACCESS_TOKEN_EXPIRE_MINUTES
        /\ j.at < now
        /\ now < j.at + ACCESS_TOKEN_EXPIRE_MINUTES
        /\ users[UserByEmail(users, j.for)].subscription_plan = "premium"

\* C9: a subscribe by a resolved user answers 404 and leaves the users table
\* as it was when no plan has the id; otherwise it answers 200 and the users
\* table differs from before in that user's plan alone, now the name of the
\* plan with that id; whatever the user's plan and rows were.
C9_SwitchPlan ==
    [][(Served("subscribe_to_plan") /\ resp'.user # 0) =>
          LET u == resp'.user
              plan_id == resp'.arg
          IN  IF plan_id \notin Ids(plans)
              THEN resp'.status = 404 /\ users' = users
              ELSE /\ resp'.status = 200
                   /\ users' = [users EXCEPT ![u].subscription_plan = plans[plan_id].name]
      ]_vars

\* C9 witness: a user on a paid plan who owns a book has switched to free.
C9_Witness ==
    /\ resp.op = "subscribe_to_plan"
    /\ resp.status = 200
    /\ resp.arg = 1
    /\ users[resp.user].subscription_plan = "free"
    /\ \E k \in Ids(user_books) :
          user_books[k].user_id = resp.user /\ books[user_books[k].book_id].is_premium

\* C10: a mark-read by a resolved user answers 404 and changes no row when
\* the user has no user_books row for the book; otherwise it answers 200 and
\* user_books differs from before in is_read of that row alone, now TRUE; so
\* on a row already read it answers 200 and changes nothing.
C10_MarkRead ==
    [][(Served("mark_book_as_read") /\ resp'.user # 0) =>
          LET rows == RowsOf(user_books, resp'.user, resp'.arg)
          IN  IF rows = {}
              THEN resp'.status = 404 /\ user_books' = user_books
              ELSE /\ resp'.status = 200
                   /\ user_books' = [k \in Ids(user_books) |->
                                        IF k = MinOf(rows)
                                        THEN [user_books[k] EXCEPT !.is_read = TRUE]
                                        ELSE user_books[k]]
                   /\ user_books[MinOf(rows)].is_read => user_books' = user_books
      ]_vars

\* C10 witness: a mark-read of a book that only another user owns has been
\* answered 404.
C10_Witness ==
    /\ resp.op = "mark_book_as_read"
    /\ resp.status = 404
    /\ resp.user # 0
    /\ \E k \in Ids(user_books) :
          user_books[k].book_id = resp.arg /\ user_books[k].user_id # resp.user

NoDuplicates(seq) == \A j1, j2 \in DOMAIN seq : seq[j1] = seq[j2] => j1 = j2

\* C11: the list a get_my_books answers holds no book twice, holds exactly
\* the books the caller has a user_books row for, and holds them in the
\* order the rows were created.
C11_ListOwned ==
    [][\A p \in Procs :
          (reqs[p].pc = "list_rows" /\ reqs'[p].pc = "done") =>
              /\ reqs'[p].status = 200
              /\ NoDuplicates(reqs'[p].body)
              /\ {reqs'[p].body[j] : j \in DOMAIN reqs'[p].body} =
                     {user_books[k].book_id :
                         k \in {x \in Ids(user_books) : user_books[x].user_id = reqs[p].user}}
              /\ \A j1, j2 \in DOMAIN reqs'[p].body :
                    j1 < j2 =>
                        \E k1, k2 \in Ids(user_books) :
                            /\ k1 < k2
                            /\ user_books[k1].user_id = reqs[p].user
                            /\ user_books[k2].user_id = reqs[p].user
                            /\ user_books[k1].book_id = reqs'[p].body[j1]
                            /\ user_books[k2].book_id = reqs'[p].body[j2]
      ]_vars

\* C12: the subscription_plan of every users row is the name of a row of
\* subscription_plans, whenever the user registered.
C12_PlanInRegistry ==
    \A u \in Ids(users) :
        \E q \in Ids(plans) : plans[q].name = users[u].subscription_plan

\* The endpoints that depend on get_current_user
AuthOps ==
    {"me", "add_book_to_library", "get_my_books", "mark_book_as_read",
     "subscribe_to_plan"}

\* tok is signed with the key of the service, is not past its exp at t,
\* carries a subject, and the subject is the email of a user
Resolves(tok, t, us) ==
    /\ tok.key = SECRET_KEY
    /\ t <= tok.exp
    /\ tok.sub # None
    /\ \E u \in Ids(us) : us[u].email = tok.sub

\* C13: a request to an endpoint that requires authentication whose token
\* does not resolve to a registered user (wrong signature or malformed,
\* expired, no subject, subject without a user) is answered 401 whatever its
\* other inputs and changes no table; every other answer (200, 400, 403,
\* 404) is given for a token that resolves, on behalf of the user whose
\* email is the subject of the token.
C13_Unauthenticated ==
    [][/\ \A tok \in Presentable :
            ~Resolves(tok, now, users) =>
                \A atExpiry \in LibraryChoices(tok, now) :
                    get_current_user(tok, now, atExpiry, users) = 0
       /\ \A op \in AuthOps :
            Served(op) =>
                /\ resp'.status = 401 =>
                      /\ resp'.user = 0
                      /\ db' = db
                /\ resp'.status # 401 =>
                      /\ resp'.tok \in Presentable
                      /\ Resolves(resp'.tok, now, users)
                      /\ resp'.user # 0
                      /\ users[resp'.user].email = resp'.tok.sub
      ]_vars

\* A request for a book id that has no row is answered 401, not 404, when
\* its token does not resolve, though a user is registered and books exist
C13_Witness ==
    /\ resp.op = "add_book_to_library"
    /\ resp.status = 401
    /\ resp.arg = 9
    /\ users # << >>
    /\ books # << >>

\* C14: an add-to-library by an authenticated user answers 404 when the
\* book has no row; else 400 when the user has a user_books row for it; else
\* 403 when the book is premium and the user's plan is "free"; else 200, and
\* then exactly one row (user, book, is_read FALSE) is appended.  No other
\* answer adds a row.
C14_CheckOrder ==
    [][(Served("add_book_to_library") /\ resp'.user # 0) =>
          LET u == resp'.user
              i == resp'.arg
              found == \E b \in Ids(books) : b = i
              owned == RowsOf(user_books, u, i) # {}
              denied == books[i].is_premium /\ users[u].subscription_plan = "free"
          IN  /\ resp'.status =
                    IF ~found THEN 404
                    ELSE IF owned THEN 400
                    ELSE IF denied THEN 403
                    ELSE 200
              /\ user_books' =
                    IF resp'.status = 200
                    THEN Append(user_books,
                                [user_id |-> u, book_id |-> i, is_read |-> FALSE])
                    ELSE user_books
      ]_vars

\* A user on the free plan who owns a premium book has asked for it again
\* and was answered 400, not 403
C14_Witness ==
    /\ resp.op = "add_book_to_library"
    /\ resp.status = 400
    /\ resp.user # 0
    /\ users[resp.user].subscription_plan = "free"
    /\ BookById(books, resp.arg) # 0
    /\ books[resp.arg].is_premium
    /\ RowsOf(user_books, resp.user, resp.arg) # {}

\* C15: an add-to-library of an existing book the caller does not own is
\* decided by the plan the caller has at that request and by nothing
\* earlier: it answers 403 when the book is premium and the plan is "free",
\* and 200 otherwise (so a book that is not premium is added on every
\* plan).  In particular, right after the caller's subscribe was answered
\* 200, a premium book is refused exactly when the plan subscribed to is
\* "free", whatever plan the caller had before.
C15_CurrentPlanOnly ==
    [][(/\ Served("add_book_to_library")
        /\ resp'.user # 0
        /\ BookById(books, resp'.arg) # 0
        /\ RowsOf(user_books, resp'.user, resp'.arg) = {}) =>
          LET u == resp'.user
              i == resp'.arg
          IN  /\ resp'.status =
                    IF books[i].is_premium /\ users[u].subscription_plan = "free"
                    THEN 403 ELSE 200
              /\ (/\ resp.op = "subscribe_to_plan"
                  /\ resp.status = 200
                  /\ resp.user = u
                  /\ books[i].is_premium) =>
                    resp'.status = IF plans[resp.arg].name = "free" THEN 403 ELSE 200
      ]_vars

\* A user, registered on the free plan as every user is, is on another plan
\* now and has been answered 200 for a premium book
C15_Witness ==
    /\ resp.op = "add_book_to_library"
    /\ resp.status = 200
    /\ resp.user # 0
    /\ users[resp.user].subscription_plan # "free"
    /\ books[resp.arg].is_premium

\* C16: no request removes a users row or a user_books row: every users row
\* keeps its email and every user_books row keeps its user and its book, so
\* a pair (user, book) that has a row has one in every later state; and
\* is_read of a row, once TRUE, stays TRUE.
C16_Monotone ==
    [][/\ Len(users') >= Len(users)
       /\ \A u \in Ids(users) : users'[u].email = users[u].email
       /\ Len(user_books') >= Len(user_books)
       /\ \A k \in Ids(user_books) :
            /\ user_books'[k].user_id = user_books[k].user_id
            /\ user_books'[k].book_id = user_books[k].book_id
            /\ user_books[k].is_read => user_books'[k].is_read
       /\ \A u \in Ids(users), i \in Ids(books) :
            RowsOf(user_books, u, i) # {} => RowsOf(user_books', u, i) # {}
      ]_vars

\* A mark-read was answered 200 and the row is read, with two users and two
\* user_books rows in the tables
C16_Witness ==
    /\ resp.op = "mark_book_as_read"
    /\ resp.status = 200
    /\ Len(users) = 2
    /\ Len(user_books) = 2
    /\ \A k \in RowsOf(user_books, resp.user, resp.arg) : user_books[k].is_read

\* C17: no request other than seed-data changes the books table or the
\* subscription_plans table, and a seed-data made when a book exists adds
\* no book and no plan and leaves every table as it was.
C17_CatalogReadOnly ==
    [][/\ ~Served("seed_data") => (books' = books /\ plans' = plans)
       /\ (Served("seed_data") /\ books # << >>) =>
            /\ db' = db
            /\ tokens' = tokens
            /\ resp'.body = <<"Data already exists">>
      ]_vars

\* A seed-data was answered "Data already exists" with users registered and
\* the seeded books and plans in place
C17_Witness ==
    /\ resp.op = "seed_data"
    /\ resp.body = <<"Data already exists">>
    /\ books = SeedBooks
    /\ plans = SeedPlans
    /\ users # << >>

\* C18: an add-to-library, a mark-read or a subscribe made with the token of
\* user u leaves every other users row and every user_books row of another
\* user as it was, and a row it adds is a row of u; and whether the add is
\* answered 400, whether the mark-read is answered 404, and what my-books
\* lists depend on the rows of u alone, so that two users can each have a
\* row for the same book.
C18_UserIsolation ==
    [][\A op \in {"add_book_to_library", "mark_book_as_read", "subscribe_to_plan",
                  "get_my_books"} :
          (Served(op) /\ resp'.user # 0) =>
              LET u == resp'.user
                  i == resp'.arg
                  own == {k \in Ids(user_books) : user_books[k].user_id = u}
              IN  /\ Len(users') = Len(users)
                  /\ \A v \in Ids(users) \ {u} : users'[v] = users[v]
                  /\ \A k \in Ids(user_books) \ own : user_books'[k] = user_books[k]
                  /\ \A k \in Ids(user_books') \ Ids(user_books) :
                        user_books'[k].user_id = u
                  /\ op = "add_book_to_library" =>
                        (resp'.status = 400 <=>
                            \E k \in own : user_books[k].book_id = i)
                  /\ op = "mark_book_as_read" =>
                        (resp'.status = 404 <=>
                            ~\E k \in own : user_books[k].book_id = i)
                  /\ op = "get_my_books" =>
                        /\ Len(resp'.body) = Cardinality(own)
                        /\ {resp'.body[j] : j \in DOMAIN resp'.body} =
                               {user_books[k].book_id : k \in own}
      ]_vars

\* A user was answered 200 for a book another user has a row for, and both
\* rows are in the table
C18_Witness ==
    /\ resp.op = "add_book_to_library"
    /\ resp.status = 200
    /\ RowsOf(user_books, resp.user, resp.arg) # {}
    /\ \E k \in Ids(user_books) :
          /\ user_books[k].book_id = resp.arg
          /\ user_books[k].user_id # resp.user

\* C19: with add-to-library and subscribe requests of one user interleaved
\* at their reads and commits, the commit of a user_books row for a premium
\* book happens only while the subscription_plan stored for the owner is
\* not "free".
C19_PremiumCommitOnPaidPlan ==
    [][\A p \in Procs :
          (/\ reqs[p].pc = "add_commit"
           /\ reqs'[p].pc = "done"
           /\ Len(user_books') = Len(user_books) + 1
           /\ books[user_books'[Len(user_books')].book_id].is_premium) =>
              users[user_books'[Len(user_books')].user_id].subscription_plan # "free"
      ]_vars

\* C20: with register requests interleaved at the lookup and the commit, no
\* two users rows have the same email, and every register is answered 200
\* (the row was inserted) or 400 (the email is taken), of two for the same
\* email at most one 200.
C20_ConcurrentRegister ==
    /\ \A i, j \in Ids(users) : users[i].email = users[j].email => i = j
    /\ \A p \in Procs :
          (reqs[p].pc = "done" /\ reqs[p].op = "register") =>
              reqs[p].status \in {200, 400}
    /\ \A p, q \in Procs :
          (/\ p # q
           /\ reqs[p].pc = "done" /\ reqs[p].op = "register"
           /\ reqs[q].pc = "done" /\ reqs[q].op = "register"
           /\ reqs[p].email = reqs[q].email) =>
              ~(reqs[p].status = 200 /\ reqs[q].status = 200)

====
